---- MODULE Spec2Model ----
(***************************************************************************)
(* A model of the text-codec library (lib/index.ts): the two public        *)
(* functions textEncode and textDecode, the dispatch on the encoding       *)
(* identifier, the single-byte codecs (ASCII, Latin-1, Windows-1252) and   *)
(* the UTF-8 / UTF-16 conversions the library delegates to                 *)
(* @exodus/bytes.                                                          *)
(*                                                                         *)
(* Text is a sequence of 16-bit code units (a JavaScript string), a byte   *)
(* buffer is a sequence of 0..255 (a Uint8Array), an encoding identifier   *)
(* is a string, written here as the sequence of its character codes so     *)
(* that toLowerCase is a computation and not a lookup.                     *)
(***************************************************************************)
EXTENDS Integers, Sequences, FiniteSets, TLC

VARIABLES
    op,        \* "idle", or the public function called last: "encode", "decode",
               \* or "roundtrip" (textDecode applied to textEncode's output)
    encoding,  \* the encoding argument of the call, as passed by the caller
    input,     \* the first argument of the call: code units (encode) or bytes (decode)
    ret,       \* what the call returned or threw
    back       \* for "roundtrip": what textDecode made of textEncode's output

vars == <<op, encoding, input, ret, back>>

(***************************************************************************)
(* Encoding identifiers.                                                   *)
(***************************************************************************)
UTF_8        == <<117, 116, 102, 45, 56>>                       \* "utf-8"
UTF8         == <<117, 116, 102, 56>>                           \* "utf8"
UTF_16LE     == <<117, 116, 102, 45, 49, 54, 108, 101>>         \* "utf-16le"
UTF_16BE     == <<117, 116, 102, 45, 49, 54, 98, 101>>          \* "utf-16be"
US_ASCII     == <<117, 115, 45, 97, 115, 99, 105, 105>>         \* "us-ascii"
ASCII        == <<97, 115, 99, 105, 105>>                       \* "ascii"
LATIN1       == <<108, 97, 116, 105, 110, 49>>                  \* "latin1"
ISO_8859_1   == <<105, 115, 111, 45, 56, 56, 53, 57, 45, 49>>   \* "iso-8859-1"
WINDOWS_1252 == <<119, 105, 110, 100, 111, 119, 115, 45, 49, 50, 53, 50>>  \* "windows-1252"

\* type SupportedEncoding: the nine recognised spellings
SupportedEncoding ==
    {UTF_8, UTF8, UTF_16LE, UTF_16BE, US_ASCII, ASCII, LATIN1, ISO_8859_1, WINDOWS_1252}

\* String.prototype.toLowerCase on the characters identifiers are made of:
\* A..Z (65..90) move to a..z, every other character is kept.
toLowerCase(s) == [i \in 1..Len(s) |-> IF s[i] \in 65..90 THEN s[i] + 32 ELSE s[i]]

(***************************************************************************)
(* Windows-1252: the forward table and the reverse table built from it at  *)
(* module load.                                                            *)
(***************************************************************************)
WINDOWS_1252_EXTRA ==
    (\H80 :> \H20AC) @@ (\H82 :> \H201A) @@ (\H83 :> \H0192) @@ (\H84 :> \H201E) @@
    (\H85 :> \H2026) @@ (\H86 :> \H2020) @@ (\H87 :> \H2021) @@ (\H88 :> \H02C6) @@
    (\H89 :> \H2030) @@ (\H8A :> \H0160) @@ (\H8B :> \H2039) @@ (\H8C :> \H0152) @@
    (\H8E :> \H017D) @@ (\H91 :> \H2018) @@ (\H92 :> \H2019) @@ (\H93 :> \H201C) @@
    (\H94 :> \H201D) @@ (\H95 :> \H2022) @@ (\H96 :> \H2013) @@ (\H97 :> \H2014) @@
    (\H98 :> \H02DC) @@ (\H99 :> \H2122) @@ (\H9A :> \H0161) @@ (\H9B :> \H203A) @@
    (\H9C :> \H0153) @@ (\H9E :> \H017E) @@ (\H9F :> \H0178)

\* The property key Object.entries yields for a numeric key: its decimal digits.
RECURSIVE keyDigits(_)
keyDigits(n) == IF n < 10 THEN <<n>> ELSE Append(keyDigits(n \div 10), n % 10)

\* Number.parseInt(digits, radix) on a string of digits.
RECURSIVE parseInt(_, _)
parseInt(digits, radix) ==
    IF digits = <<>> THEN 0
    ELSE parseInt(SubSeq(digits, 1, Len(digits) - 1), radix) * radix + digits[Len(digits)]

\* mutation of reverseCode: the key parsed as hexadecimal
reverseCodeHex(code) == parseInt(keyDigits(code), 16)

\* WINDOWS_1252_REVERSE[char] = Number.parseInt(code, 10)
reverseCode(code) == parseInt(keyDigits(code), 10)

\* for (const [code, char] of Object.entries(EXTRA)) REVERSE[char] = parseInt(code, 10):
\* integer keys are visited in ascending order, a later entry overwrites an earlier one.
WINDOWS_1252_REVERSE ==
    [ch \in {WINDOWS_1252_EXTRA[b] : b \in DOMAIN WINDOWS_1252_EXTRA} |->
        LET last == CHOOSE b \in DOMAIN WINDOWS_1252_EXTRA :
                        /\ WINDOWS_1252_EXTRA[b] = ch
                        /\ \A c \in DOMAIN WINDOWS_1252_EXTRA :
                               WINDOWS_1252_EXTRA[c] = ch => c <= b
        IN reverseCode(last)]

\* const CHUNK = 32 * 1024
CHUNK == 32 * 1024

Min(a, b) == IF a < b THEN a ELSE b

\* A store into a Uint8Array keeps the low eight bits.
ToUint8(v) == v % 256

(***************************************************************************)
(* The single-byte codecs.                                                 *)
(***************************************************************************)
\* One chunk of decodeASCII: codes[k] = bytes[j] & 0x7f for j in [i, end), 0-based.
asciiChunk(bytes, i, end) == [k \in 1..(end - i) |-> bytes[i + k] % 128]

\* mutation of decodeASCIIFrom: the chunk ends one byte early (end - 1)
RECURSIVE decodeASCIIFromShort(_, _)
decodeASCIIFromShort(bytes, i) ==
    IF i >= Len(bytes) THEN <<>>
    ELSE LET end == Min(Len(bytes), i + CHUNK - 1)
         IN asciiChunk(bytes, i, end) \o decodeASCIIFromShort(bytes, i + CHUNK)

\* The loop of decodeASCII from offset i: one part per chunk, parts joined in order.
RECURSIVE decodeASCIIFrom(_, _)
decodeASCIIFrom(bytes, i) ==
    IF i >= Len(bytes) THEN <<>>
    ELSE LET end == Min(Len(bytes), i + CHUNK)
         IN asciiChunk(bytes, i, end) \o decodeASCIIFrom(bytes, i + CHUNK)

decodeASCII(bytes) == decodeASCIIFrom(bytes, 0)

latin1Chunk(bytes, i, end) == [k \in 1..(end - i) |-> bytes[i + k]]

RECURSIVE decodeLatin1From(_, _)
decodeLatin1From(bytes, i) ==
    IF i >= Len(bytes) THEN <<>>
    ELSE LET end == Min(Len(bytes), i + CHUNK)
         IN latin1Chunk(bytes, i, end) \o decodeLatin1From(bytes, i + CHUNK)

decodeLatin1(bytes) == decodeLatin1From(bytes, 0)

\* extra ?? String.fromCharCode(b), with extra looked up only for 0x80..0x9f
windows1252Char(b) ==
    IF b >= \H80 /\ b <= \H9F /\ b \in DOMAIN WINDOWS_1252_EXTRA
    THEN WINDOWS_1252_EXTRA[b]
    ELSE b

\* The loop of decodeWindows1252 appends one code unit per byte to `out` and moves
\* `out` to `parts` each time it holds CHUNK units; what is left is pushed at the end.
\* So the parts are the consecutive slices of CHUNK mapped bytes, joined in order.
RECURSIVE decodeWindows1252From(_, _)
decodeWindows1252From(bytes, i) ==
    IF i >= Len(bytes) THEN <<>>
    ELSE LET end == Min(Len(bytes), i + CHUNK)
         IN [k \in 1..(end - i) |-> windows1252Char(bytes[i + k])]
                \o decodeWindows1252From(bytes, i + CHUNK)

decodeWindows1252(bytes) == decodeWindows1252From(bytes, 0)

encodeASCII(str) == [i \in 1..Len(str) |-> ToUint8(str[i] % 128)]

encodeLatin1(str) == [i \in 1..Len(str) |-> ToUint8(str[i] % 256)]

\* mutation of encodeWindows1252Unit: 0x80..0x9f are not emitted directly
encodeWindows1252UnitStrict(code) ==
    IF code <= \HFF /\ ~(code >= \H80 /\ code <= \H9F) THEN ToUint8(code)
    ELSE IF code \in DOMAIN WINDOWS_1252_REVERSE
         THEN ToUint8(WINDOWS_1252_REVERSE[code])
         ELSE \H3F

\* The body of encodeWindows1252's loop for one code unit.
encodeWindows1252Unit(code) ==
    IF code <= \HFF THEN ToUint8(code)
    ELSE IF code \in DOMAIN WINDOWS_1252_REVERSE
         THEN ToUint8(WINDOWS_1252_REVERSE[code])
         ELSE \H3F

encodeWindows1252(str) == [i \in 1..Len(str) |-> encodeWindows1252Unit(str[i])]

(***************************************************************************)
(* The conversions of @exodus/bytes the library delegates to.  Their       *)
(* "Loose" variants never throw: they follow the WHATWG Encoding Standard  *)
(* (what TextDecoder / TextEncoder do without `fatal`), keep a byte-order  *)
(* mark, and replace what cannot be converted by U+FFFD.                   *)
(***************************************************************************)
\* '\uFFFD', the replacement character
REPLACEMENT == \HFFFD

isHighSurrogate(u) == u >= \HD800 /\ u <= \HDBFF
isLowSurrogate(u)  == u >= \HDC00 /\ u <= \HDFFF
isSurrogate(u)     == u >= \HD800 /\ u <= \HDFFF

\* The code units of a string holding the one code point cp.
codeUnits(cp) ==
    IF cp < \H10000 THEN <<cp>>
    ELSE << \HD800 + ((cp - \H10000) \div \H400), \HDC00 + ((cp - \H10000) % \H400) >>

\* The UTF-8 decoder of the Encoding Standard as a loop over the bytes from index i:
\* cp is the code point being assembled, needed the continuation bytes still
\* expected, lower..upper the range the next continuation byte must be in.
RECURSIVE utf8Decode(_, _, _, _, _, _, _)
utf8Decode(bytes, i, cp, needed, lower, upper, out) ==
    IF i > Len(bytes)
    THEN IF needed # 0 THEN Append(out, REPLACEMENT) ELSE out
    ELSE LET b == bytes[i] IN
         IF needed = 0
         THEN IF b <= \H7F
              THEN utf8Decode(bytes, i + 1, 0, 0, \H80, \HBF, Append(out, b))
              ELSE IF b >= \HC2 /\ b <= \HDF
              THEN utf8Decode(bytes, i + 1, b % \H20, 1, \H80, \HBF, out)
              ELSE IF b >= \HE0 /\ b <= \HEF
              THEN utf8Decode(bytes, i + 1, b % \H10, 2,
                              IF b = \HE0 THEN \HA0 ELSE \H80,
                              IF b = \HED THEN \H9F ELSE \HBF, out)
              ELSE IF b >= \HF0 /\ b <= \HF4
              THEN utf8Decode(bytes, i + 1, b % \H08, 3,
                              IF b = \HF0 THEN \H90 ELSE \H80,
                              IF b = \HF4 THEN \H8F ELSE \HBF, out)
              ELSE utf8Decode(bytes, i + 1, 0, 0, \H80, \HBF, Append(out, REPLACEMENT))
         ELSE IF b < lower \/ b > upper
              \* not a continuation of this sequence: one U+FFFD, the byte is read again
              THEN utf8Decode(bytes, i, 0, 0, \H80, \HBF, Append(out, REPLACEMENT))
              ELSE LET cp2 == cp * \H40 + (b - \H80) IN
                   IF needed = 1
                   THEN utf8Decode(bytes, i + 1, 0, 0, \H80, \HBF, out \o codeUnits(cp2))
                   ELSE utf8Decode(bytes, i + 1, cp2, needed - 1, \H80, \HBF, out)

utf8toStringLoose(bytes) == utf8Decode(bytes, 1, 0, 0, \H80, \HBF, <<>>)

\* The UTF-8 bytes of one code point.
utf8Bytes(cp) ==
    IF cp <= \H7F THEN <<cp>>
    ELSE IF cp <= \H7FF THEN << \HC0 + (cp \div \H40), \H80 + (cp % \H40) >>
    ELSE IF cp <= \HFFFF
    THEN << \HE0 + (cp \div \H1000), \H80 + ((cp \div \H40) % \H40), \H80 + (cp % \H40) >>
    ELSE << \HF0 + (cp \div \H40000), \H80 + ((cp \div \H1000) % \H40),
            \H80 + ((cp \div \H40) % \H40), \H80 + (cp % \H40) >>

\* The UTF-8 encoder over the code units of str from index i: a high surrogate
\* followed by a low one is one code point, any other surrogate becomes U+FFFD.
RECURSIVE utf8Encode(_, _)
utf8Encode(str, i) ==
    IF i > Len(str) THEN <<>>
    ELSE LET c == str[i] IN
         IF isHighSurrogate(c) /\ i < Len(str) /\ isLowSurrogate(str[i + 1])
         THEN utf8Bytes(\H10000 + (c - \HD800) * \H400 + (str[i + 1] - \HDC00))
                  \o utf8Encode(str, i + 2)
         ELSE IF isSurrogate(c)
         THEN utf8Bytes(REPLACEMENT) \o utf8Encode(str, i + 1)
         ELSE utf8Bytes(c) \o utf8Encode(str, i + 1)

utf8fromStringLoose(str) == utf8Encode(str, 1)

\* String.prototype.toWellFormed as a loop from index i: every surrogate that is
\* not half of a high-then-low pair becomes U+FFFD.
RECURSIVE toWellFormed(_, _)
toWellFormed(str, i) ==
    IF i > Len(str) THEN <<>>
    ELSE LET c == str[i] IN
         IF isHighSurrogate(c) /\ i < Len(str) /\ isLowSurrogate(str[i + 1])
         THEN <<c, str[i + 1]>> \o toWellFormed(str, i + 2)
         ELSE IF isSurrogate(c)
         THEN <<REPLACEMENT>> \o toWellFormed(str, i + 1)
         ELSE <<c>> \o toWellFormed(str, i + 1)

\* The 16-bit units a byte buffer of even length holds in the given byte order.
uint16View(bytes, format) ==
    [k \in 1..(Len(bytes) \div 2) |->
        IF format = "uint8-le"
        THEN bytes[2 * k - 1] + 256 * bytes[2 * k]
        ELSE 256 * bytes[2 * k - 1] + bytes[2 * k]]

\* The bytes of 16-bit units in the given byte order.
uint8View(units, format) ==
    [k \in 1..(2 * Len(units)) |->
        LET u == units[(k + 1) \div 2] IN
        IF (k % 2 = 1) = (format = "uint8-le") THEN u % 256 ELSE u \div 256]

utf16toStringLoose(bytes, format) == toWellFormed(uint16View(bytes, format), 1)

utf16fromStringLoose(str, format) == uint8View(toWellFormed(str, 1), format)

(***************************************************************************)
(* The public functions.  A call either returns a value or throws a        *)
(* RangeError whose message quotes the encoding argument.                  *)
(***************************************************************************)
Returned(v) == [kind |-> "value", val |-> v, msg |-> <<>>]

\* `Encoding '${encoding}' not supported`
notSupported(enc) ==
    <<69, 110, 99, 111, 100, 105, 110, 103, 32, 39>> \o enc
        \o <<39, 32, 110, 111, 116, 32, 115, 117, 112, 112, 111, 114, 116, 101, 100>>

Thrown(message) == [kind |-> "throw", val |-> <<>>, msg |-> message]

\* mutation of unsupported: the error quotes the lower-cased identifier
unsupportedLowered(enc) == Thrown(notSupported(toLowerCase(enc)))

\* default: throw new RangeError(`Encoding '${encoding}' not supported`)
unsupported(enc) == Thrown(notSupported(enc))

\* bytes.subarray(0, -1)
dropLast(bytes) == SubSeq(bytes, 1, Len(bytes) - 1)

\* mutation of utf16DecodeFormat: the byte order is always little-endian
utf16DecodeFormatLE(enc) == "uint8-le"

\* encoding === 'utf-16be' ? 'uint8-be' : 'uint8-le', on the argument as passed
utf16DecodeFormat(enc) == IF enc = UTF_16BE THEN "uint8-be" ELSE "uint8-le"

\* mutation of decodeUtf8: the bytes are taken for Latin-1
decodeUtf8AsLatin1(bytes) == decodeLatin1(bytes)

\* case "utf-8", "utf8": return utf8toStringLoose(bytes)
decodeUtf8(bytes) == utf8toStringLoose(bytes)

\* mutation of decodeUtf16: no U+FFFD is appended for the odd byte
decodeUtf16NoSuffix(bytes, enc) ==
    LET even == IF Len(bytes) % 2 = 1 THEN dropLast(bytes) ELSE bytes
    IN utf16toStringLoose(even, utf16DecodeFormat(enc))

\* case "utf-16le", "utf-16be": an odd last byte is cut off and answered by one
\* U+FFFD after the decoded text
decodeUtf16(bytes, enc) ==
    LET odd    == Len(bytes) % 2 = 1
        suffix == IF odd THEN <<REPLACEMENT>> ELSE <<>>
        even   == IF odd THEN dropLast(bytes) ELSE bytes
    IN utf16toStringLoose(even, utf16DecodeFormat(enc)) \o suffix

textDecode(bytes, enc) ==
    LET lc == toLowerCase(enc) IN
    IF lc = UTF_8 \/ lc = UTF8 THEN Returned(decodeUtf8(bytes))
    ELSE IF lc = UTF_16LE \/ lc = UTF_16BE THEN Returned(decodeUtf16(bytes, enc))
    ELSE IF lc = US_ASCII \/ lc = ASCII THEN Returned(decodeASCII(bytes))
    ELSE IF lc = LATIN1 \/ lc = ISO_8859_1 THEN Returned(decodeLatin1(bytes))
    ELSE IF lc = WINDOWS_1252 THEN Returned(decodeWindows1252(bytes))
    ELSE unsupported(enc)

\* mutation of encodeUtf8: the string is encoded as Latin-1
encodeUtf8AsLatin1(str) == encodeLatin1(str)

\* case "utf-8", "utf8": return utf8fromStringLoose(input)
encodeUtf8(str) == utf8fromStringLoose(str)

\* case "utf-16le": return utf16fromStringLoose(input, "uint8-le")
encodeUtf16LE(str) == utf16fromStringLoose(str, "uint8-le")

\* mutation of encodeUtf16BE: the little-endian format is passed
encodeUtf16BEAsLE(str) == utf16fromStringLoose(str, "uint8-le")

\* case "utf-16be": return utf16fromStringLoose(input, "uint8-be")
encodeUtf16BE(str) == utf16fromStringLoose(str, "uint8-be")

textEncode(str, enc) ==
    LET lc == toLowerCase(enc) IN
    IF lc = UTF_8 \/ lc = UTF8 THEN Returned(encodeUtf8(str))
    ELSE IF lc = UTF_16LE THEN Returned(encodeUtf16LE(str))
    ELSE IF lc = UTF_16BE THEN Returned(encodeUtf16BE(str))
    ELSE IF lc = US_ASCII \/ lc = ASCII THEN Returned(encodeASCII(str))
    ELSE IF lc = LATIN1 \/ lc = ISO_8859_1 THEN Returned(encodeLatin1(str))
    ELSE IF lc = WINDOWS_1252 THEN Returned(encodeWindows1252(str))
    ELSE unsupported(enc)

(***************************************************************************)
(* The state machine: a caller calls textEncode or textDecode once, and    *)
(* may hand what textEncode returned back to textDecode.                   *)
(***************************************************************************)
Init ==
    /\ op = "idle"
    /\ encoding = <<>>
    /\ input = <<>>
    /\ ret = [kind |-> "none", val |-> <<>>, msg |-> <<>>]
    /\ back = [kind |-> "none", val |-> <<>>, msg |-> <<>>]

\* textEncode(str, enc), for some str and enc of the given sets
Encode(Strs, Encs) ==
    /\ op = "idle"
    /\ \E str \in Strs, enc \in Encs :
          /\ op' = "encode"
          /\ encoding' = enc
          /\ input' = str
          /\ ret' = textEncode(str, enc)
    /\ UNCHANGED back

\* textDecode(bytes, enc), for some bytes and enc of the given sets
Decode(Bufs, Encs) ==
    /\ op = "idle"
    /\ \E bytes \in Bufs, enc \in Encs :
          /\ op' = "decode"
          /\ encoding' = enc
          /\ input' = bytes
          /\ ret' = textDecode(bytes, enc)
    /\ UNCHANGED back

\* textDecode(textEncode(str, enc), enc): the second half of a round trip
DecodeBack ==
    /\ op = "encode"
    /\ ret.kind = "value"
    /\ op' = "roundtrip"
    /\ back' = textDecode(ret.val, encoding)
    /\ UNCHANGED <<encoding, input, ret>>

(***************************************************************************)
(* Inputs.                                                                 *)
(***************************************************************************)
SeqsUpTo(S, n) == UNION {[1..k -> S] : k \in 0..n}

toUpperCase(s) == [i \in 1..Len(s) |-> IF s[i] \in 97..122 THEN s[i] - 32 ELSE s[i]]

capitalize(s) == [i \in 1..Len(s) |-> IF i = 1 /\ s[i] \in 97..122 THEN s[i] - 32 ELSE s[i]]

\* "utf-7", "utf-16", "latin2", "" and "binary"
UnknownEncodings ==
    { <<117, 116, 102, 45, 55>>, <<117, 116, 102, 45, 49, 54>>,
      <<108, 97, 116, 105, 110, 50>>, <<>>, <<98, 105, 110, 97, 114, 121>> }

\* every recognised spelling in lower case, in upper case and capitalised,
\* and unknown names in the same three forms
DispatchEncodings ==
    LET names == SupportedEncoding \cup UnknownEncodings
    IN names \cup {toUpperCase(e) : e \in names} \cup {capitalize(e) : e \in names}

MaxDispatchLen == 2

DispatchStrs == SeqsUpTo({\H41, \HE9, \H20AC, \HD83D}, MaxDispatchLen)

DispatchBufs == SeqsUpTo({\H00, \H41, \H80, \HC3}, MaxDispatchLen)

(***************************************************************************)
(* The dispatcher: any identifier, short inputs.                           *)
(***************************************************************************)
Next == Encode(DispatchStrs, DispatchEncodings) \/ Decode(DispatchBufs, DispatchEncodings)

Spec == Init /\ [][Next]_vars

\* The lower-case canonical identifier of a recognised lower-case spelling.
canonical(lc) ==
    IF lc = UTF8 THEN UTF_8
    ELSE IF lc = US_ASCII THEN ASCII
    ELSE IF lc = ISO_8859_1 THEN LATIN1
    ELSE lc

\* C1: whenever the identifier, lower-cased, is a recognised name, textEncode and
\* textDecode return exactly what they return for the lower-case canonical
\* identifier of the same encoding.
CaseInsensitiveAliases ==
    (op \in {"encode", "decode"} /\ toLowerCase(encoding) \in SupportedEncoding) =>
        ret = IF op = "encode"
              THEN textEncode(input, canonical(toLowerCase(encoding)))
              ELSE textDecode(input, canonical(toLowerCase(encoding)))

\* C2: a call fails if and only if the lower-cased identifier is not a recognised
\* name; the error then quotes the identifier exactly as passed and nothing is
\* returned; a call with a recognised identifier returns a buffer of bytes
\* (encode) or of code units (decode), whatever the content.
FailsIffUnsupported ==
    op \in {"encode", "decode"} =>
        /\ ret.kind \in {"value", "throw"}
        /\ (ret.kind = "throw") <=> (toLowerCase(encoding) \notin SupportedEncoding)
        /\ ret.kind = "throw" => (ret.msg = notSupported(encoding) /\ ret.val = <<>>)
        /\ ret.kind = "value" =>
               \A i \in 1..Len(ret.val) :
                   ret.val[i] \in (IF op = "encode" THEN 0..255 ELSE 0..65535)

\* textDecode rejects "UTF-7", content at hand, quoting it as it was spelled
UnsupportedRejected ==
    /\ op = "decode"
    /\ encoding = <<85, 84, 70, 45, 55>>
    /\ input # <<>>
    /\ ret.kind = "throw"
    /\ ret.msg = notSupported(<<85, 84, 70, 45, 55>>)

(***************************************************************************)
(* UTF-8: byte buffers over one byte of every class of the well-formed     *)
(* table, strings over plain units of every encoded length and surrogates. *)
(***************************************************************************)
MaxUtf8Bytes == 4

MaxUtf8Units == 3

\* 'A'; trail bytes 80, 90, A0; lead bytes C2, E0, E1, ED, F0, F1, F4; FE and FF
Utf8Bufs ==
    SeqsUpTo({\H41, \H80, \H90, \HA0, \HC2, \HE0, \HE1, \HED, \HF0, \HF1, \HF4, \HFE, \HFF},
             MaxUtf8Bytes)

Utf8Strs ==
    SeqsUpTo({\H41, \H80, \H7FF, \H800, \HD800, \HDBFF, \HDC00, \HDFFF, \HFFFF},
             MaxUtf8Units)

Utf8Encodings == {UTF_8, UTF8}

NextUtf8 == Encode(Utf8Strs, Utf8Encodings) \/ Decode(Utf8Bufs, {UTF_8})

SpecUtf8 == Init /\ [][NextUtf8]_vars

isUtf8(enc) == toLowerCase(enc) \in {UTF_8, UTF8}

\* The well-formed UTF-8 byte sequences (Unicode, table 3-7): each row gives the
\* range of every byte of a sequence.
WellFormedUtf8 ==
    { << <<\H00, \H7F>> >>,
      << <<\HC2, \HDF>>, <<\H80, \HBF>> >>,
      << <<\HE0, \HE0>>, <<\HA0, \HBF>>, <<\H80, \HBF>> >>,
      << <<\HE1, \HEC>>, <<\H80, \HBF>>, <<\H80, \HBF>> >>,
      << <<\HED, \HED>>, <<\H80, \H9F>>, <<\H80, \HBF>> >>,
      << <<\HEE, \HEF>>, <<\H80, \HBF>>, <<\H80, \HBF>> >>,
      << <<\HF0, \HF0>>, <<\H90, \HBF>>, <<\H80, \HBF>>, <<\H80, \HBF>> >>,
      << <<\HF1, \HF3>>, <<\H80, \HBF>>, <<\H80, \HBF>>, <<\H80, \HBF>> >>,
      << <<\HF4, \HF4>>, <<\H80, \H8F>>, <<\H80, \HBF>>, <<\H80, \HBF>> >> }

\* the k bytes of `bytes` from index i are the first k bytes of a sequence of `row`
startsRow(row, bytes, i, k) ==
    /\ k <= Len(row)
    /\ i + k - 1 <= Len(bytes)
    /\ \A j \in 1..k : bytes[i + j - 1] >= row[j][1] /\ bytes[i + j - 1] <= row[j][2]

\* the length of the well-formed sequence that starts at index i, 0 if there is none
wellFormedAt(bytes, i) ==
    IF \E row \in WellFormedUtf8 : startsRow(row, bytes, i, Len(row))
    THEN Len(CHOOSE row \in WellFormedUtf8 : startsRow(row, bytes, i, Len(row)))
    ELSE 0

\* the length of the maximal ill-formed subpart at index i, where no well-formed
\* sequence starts: the longest start of a well-formed sequence, or one byte
maximalSubpart(bytes, i) ==
    LET starts == {k \in 1..4 : \E row \in WellFormedUtf8 : startsRow(row, bytes, i, k)}
    IN IF starts = {} THEN 1 ELSE CHOOSE k \in starts : \A m \in starts : m <= k

\* the code point a well-formed sequence of n bytes at index i stands for
scalarValue(bytes, i, n) ==
    IF n = 1 THEN bytes[i]
    ELSE IF n = 2 THEN (bytes[i] - \HC0) * \H40 + (bytes[i + 1] - \H80)
    ELSE IF n = 3
    THEN (bytes[i] - \HE0) * \H1000 + (bytes[i + 1] - \H80) * \H40 + (bytes[i + 2] - \H80)
    ELSE (bytes[i] - \HF0) * \H40000 + (bytes[i + 1] - \H80) * \H1000
             + (bytes[i + 2] - \H80) * \H40 + (bytes[i + 3] - \H80)

\* a code point as the text holds it: itself, or its surrogate pair above U+FFFF
asText(cp) ==
    IF cp <= \HFFFF THEN <<cp>>
    ELSE LET v == cp - \H10000 IN << \HD800 + (v \div \H400), \HDC00 + (v % \H400) >>

\* Left to right from index i: a well-formed sequence gives its code point, a
\* maximal ill-formed subpart gives one U+FFFD, and the scan goes on right after it.
RECURSIVE maximalSubpartDecoding(_, _)
maximalSubpartDecoding(bytes, i) ==
    IF i > Len(bytes) THEN <<>>
    ELSE LET n == wellFormedAt(bytes, i) IN
         IF n > 0
         THEN asText(scalarValue(bytes, i, n)) \o maximalSubpartDecoding(bytes, i + n)
         ELSE <<\HFFFD>> \o maximalSubpartDecoding(bytes, i + maximalSubpart(bytes, i))

\* C4: UTF-8 textDecode scans left to right, decodes every well-formed sequence to
\* its code point and replaces every maximal ill-formed subpart by exactly one
\* U+FFFD, resuming right after it.
Utf8DecodeMaximalSubparts ==
    (op = "decode" /\ isUtf8(encoding)) =>
        /\ ret.kind = "value"
        /\ ret.val = maximalSubpartDecoding(input, 1)
        /\ input = <<\HF0, \H90, \H80>> => ret.val = <<\HFFFD>>
        /\ input = <<\HF0, \H80, \H80>> => ret.val = <<\HFFFD, \HFFFD, \HFFFD>>
        /\ input = <<\HED, \HA0, \H80>> => ret.val = <<\HFFFD, \HFFFD, \HFFFD>>
        /\ input \in {<<\H80>>, <<\HFE>>, <<\HFF>>} => ret.val = <<\HFFFD>>

\* a truncated four-byte sequence followed by a byte that starts a new sequence:
\* one U+FFFD for the three bytes, then the letter
Utf8TruncatedThenLetter ==
    /\ op = "decode"
    /\ input = <<\HF0, \H90, \H80, \H41>>
    /\ ret.val = <<\HFFFD, \H41>>

leadsPair(str, i)  == isHighSurrogate(str[i]) /\ i < Len(str) /\ isLowSurrogate(str[i + 1])
trailsPair(str, i) == isLowSurrogate(str[i]) /\ i > 1 /\ isHighSurrogate(str[i - 1])
isLone(str, i)     == isSurrogate(str[i]) /\ ~leadsPair(str, i) /\ ~trailsPair(str, i)

\* the number of bytes code unit i of str contributes to its UTF-8 encoding
utf8Share(str, i) ==
    IF leadsPair(str, i) THEN 4
    ELSE IF trailsPair(str, i) THEN 0
    ELSE IF isSurrogate(str[i]) THEN 3
    ELSE IF str[i] <= \H7F THEN 1
    ELSE IF str[i] <= \H7FF THEN 2
    ELSE 3

\* the number of bytes the code units before index i contribute
RECURSIVE utf8Offset(_, _)
utf8Offset(str, i) == IF i <= 1 THEN 0 ELSE utf8Offset(str, i - 1) + utf8Share(str, i - 1)

\* C5: UTF-8 textEncode emits, unit by unit and in order: for a high surrogate
\* followed by a low one the four bytes of the combined code point, for any other
\* surrogate EF BF BD, for any other unit its standard one, two or three bytes;
\* nothing else, so no byte-order mark and no merged replacement.
Utf8EncodeReplacesLoneSurrogates ==
    (op = "encode" /\ isUtf8(encoding)) =>
        /\ ret.kind = "value"
        /\ Len(ret.val) = utf8Offset(input, Len(input) + 1)
        /\ \A i \in 1..Len(input) :
               LET at == utf8Offset(input, i) + 1 IN
               IF leadsPair(input, i)
               THEN /\ wellFormedAt(ret.val, at) = 4
                    /\ scalarValue(ret.val, at, 4) =
                           \H10000 + (input[i] - \HD800) * \H400 + (input[i + 1] - \HDC00)
               ELSE IF trailsPair(input, i) THEN TRUE
               ELSE IF isSurrogate(input[i])
               THEN SubSeq(ret.val, at, at + 2) = <<\HEF, \HBF, \HBD>>
               ELSE /\ wellFormedAt(ret.val, at) = utf8Share(input, i)
                    /\ scalarValue(ret.val, at, utf8Share(input, i)) = input[i]

\* two lone surrogates side by side, a low one and then a high one
Utf8TwoLoneSurrogates ==
    /\ op = "encode"
    /\ isUtf8(encoding)
    /\ Len(input) = 2
    /\ isLowSurrogate(input[1])
    /\ isHighSurrogate(input[2])
    /\ ret.val = <<\HEF, \HBF, \HBD, \HEF, \HBF, \HBD>>

(***************************************************************************)
(* UTF-16: byte buffers whose pairs give letters, high and low surrogates  *)
(* in either byte order; strings over letters and surrogates.              *)
(***************************************************************************)
MaxUtf16Bytes == 6

MaxUtf16Units == 3

Utf16Bufs == SeqsUpTo({\H00, \H41, \HD8, \HDC}, MaxUtf16Bytes)

Utf16Strs == SeqsUpTo({\H41, \H20AC, \HD800, \HDBFF, \HDC00, \HDFFF, \HFFFD}, MaxUtf16Units)

Utf16Encodings == {UTF_16LE, UTF_16BE}

NextUtf16 == Encode(Utf16Strs, Utf16Encodings) \/ Decode(Utf16Bufs, Utf16Encodings)

SpecUtf16 == Init /\ [][NextUtf16]_vars

isUtf16(enc) == enc \in Utf16Encodings

\* code unit k of a byte buffer in the byte order the encoding names
unitAt(bytes, k, enc) ==
    IF enc = UTF_16BE
    THEN bytes[2 * k - 1] * 256 + bytes[2 * k]
    ELSE bytes[2 * k] * 256 + bytes[2 * k - 1]

unitsOf(bytes, enc) == [k \in 1..(Len(bytes) \div 2) |-> unitAt(bytes, k, enc)]

\* C6: UTF-16 textDecode of an odd-length buffer is the decoding of the buffer
\* without its last byte followed by exactly one U+FFFD; an even-length buffer
\* gives one code unit per byte pair and nothing more.
Utf16OddLengthAppendsOne ==
    (op = "decode" /\ isUtf16(encoding)) =>
        LET n    == Len(input)
            half == n \div 2
        IN /\ ret.kind = "value"
           /\ n % 2 = 0 => Len(ret.val) = half
           /\ n % 2 = 1 =>
                  /\ Len(ret.val) = half + 1
                  /\ ret.val[half + 1] = \HFFFD
                  /\ SubSeq(ret.val, 1, half)
                         = textDecode(SubSeq(input, 1, n - 1), encoding).val

\* an odd-length buffer whose byte pairs are a letter and a lone surrogate
Utf16OddBuffer ==
    /\ op = "decode"
    /\ isUtf16(encoding)
    /\ Len(input) = 5
    /\ ret.val[1] = \H41
    /\ ret.val[2] = \HFFFD
    /\ ret.val[3] = \HFFFD

\* C7: UTF-16 textDecode reads each byte pair as one code unit in the byte order of
\* the encoding; a surrogate that is not half of a high-then-low pair becomes its
\* own U+FFFD, pairs and all other units are returned unchanged.
Utf16DecodeReplacesLoneSurrogates ==
    (op = "decode" /\ isUtf16(encoding)) =>
        LET units == unitsOf(input, encoding) IN
        /\ ret.kind = "value"
        /\ Len(ret.val) >= Len(units)
        /\ \A k \in 1..Len(units) :
               ret.val[k] = IF isLone(units, k) THEN \HFFFD ELSE units[k]

\* big-endian: two high surrogates in a row, then a low one: the first is lone,
\* the second pairs with the low one
Utf16HighHighLow ==
    /\ op = "decode"
    /\ encoding = UTF_16BE
    /\ input = <<\HD8, \H00, \HD8, \H41, \HDC, \H00>>
    /\ ret.val = <<\HFFFD, \HD841, \HDC00>>

\* C8 as stated: UTF-16 textEncode passes every code unit through: 2*len(s) bytes,
\* byte pair i the unchanged code unit i, lone surrogates included.
Utf16EncodePassThrough ==
    (op = "encode" /\ isUtf16(encoding)) =>
        /\ ret.kind = "value"
        /\ Len(ret.val) = 2 * Len(input)
        /\ \A i \in 1..Len(input) : unitAt(ret.val, i, encoding) = input[i]

\* C8 amended: 2*len(s) bytes, byte pair i the code unit i in the byte order of the
\* encoding, except that a surrogate that is not half of a high-then-low pair is
\* emitted as U+FFFD.
Utf16EncodeReplacesLoneSurrogates ==
    (op = "encode" /\ isUtf16(encoding)) =>
        /\ ret.kind = "value"
        /\ Len(ret.val) = 2 * Len(input)
        /\ \A i \in 1..Len(input) :
               unitAt(ret.val, i, encoding)
                   = IF isLone(input, i) THEN \HFFFD ELSE input[i]

\* big-endian: a lone low surrogate, then a pair
Utf16EncodeLoneThenPair ==
    /\ op = "encode"
    /\ encoding = UTF_16BE
    /\ input = <<\HDC00, \HD800, \HDFFF>>
    /\ ret.val = <<\HFF, \HFD, \HD8, \H00, \HDF, \HFF>>

(***************************************************************************)
(* The single-byte codecs: short inputs over every class of unit and byte, *)
(* every character of the extension table alone, and inputs around and     *)
(* beyond the chunk size.                                                  *)
(***************************************************************************)
MaxSingleLen == 3

\* the characters the forward table maps to
ExtensionChars == {WINDOWS_1252_EXTRA[b] : b \in DOMAIN WINDOWS_1252_EXTRA}

\* lengths of one chunk, one unit more, and more than two chunks
LongLengths == {CHUNK, CHUNK + 1, 2 * CHUNK + 1}

\* a long byte buffer in which every byte value occurs
longBuf(n) == [i \in 1..n |-> (i * 7 + 121) % 256]

\* a long string in which units below and above 0x80 and above 0xFF occur
longStr(n) == [i \in 1..n |-> (i * 13 + 115) % 1024]

SingleStrs ==
    SeqsUpTo({\H41, \H7F, \H80, \HFF, \H20AC, \H3042}, MaxSingleLen)
        \cup {<<u>> : u \in ExtensionChars \cup (\H80..\H9F) \cup {\H100, \HFFFF}}
        \cup {longStr(n) : n \in LongLengths}

SingleBufs ==
    SeqsUpTo({\H00, \H41, \H7F, \H80, \H81, \HFF}, MaxSingleLen)
        \cup {<<b>> : b \in \H80..\H9F}
        \cup {longBuf(n) : n \in LongLengths}

SingleEncodings == {ASCII, US_ASCII, LATIN1, ISO_8859_1, WINDOWS_1252}

NextSingleByte ==
    Encode(SingleStrs, SingleEncodings) \/ Decode(SingleBufs, SingleEncodings)

SpecSingleByte == Init /\ [][NextSingleByte]_vars

isAscii(enc) == enc \in {ASCII, US_ASCII}

\* C9: Windows-1252 textEncode emits one byte per code unit: the unit itself when
\* it is <= 0xFF; for one of the 27 characters of the extension table the byte of
\* 0x80..0x9F that textDecode maps to that character; 0x3F for anything else.
Windows1252EncodeUnits ==
    (op = "encode" /\ encoding = WINDOWS_1252) =>
        /\ ret.kind = "value"
        /\ Len(ret.val) = Len(input)
        /\ Cardinality(ExtensionChars) = 27
        /\ \A i \in 1..Len(input) :
               LET u == input[i]
                   b == ret.val[i]
               IN IF u <= \HFF THEN b = u
                  ELSE IF u \in ExtensionChars
                  THEN /\ b \in \H80..\H9F
                       /\ textDecode(<<b>>, WINDOWS_1252).val = <<u>>
                  ELSE b = \H3F

\* the euro sign is encoded as 0x80
Windows1252EuroEncoded ==
    /\ op = "encode"
    /\ encoding = WINDOWS_1252
    /\ input = <<\H20AC>>
    /\ ret.val = <<\H80>>

\* C10: ASCII masks, in both directions and at any length: textEncode gives one
\* byte per code unit, the unit's low seven bits, and textDecode one code unit
\* per byte, the byte's low seven bits, in the original order.
AsciiMasks ==
    (op \in {"encode", "decode"} /\ isAscii(encoding)) =>
        /\ ret.kind = "value"
        /\ Len(ret.val) = Len(input)
        /\ \A i \in 1..Len(input) : ret.val[i] = input[i] % 128
        /\ (op = "encode" /\ input = <<\H7F, \H80, \HFF>>) => ret.val = <<\H7F, \H00, \H7F>>

\* a buffer longer than two chunks with high bytes, decoded
AsciiBeyondChunk ==
    /\ op = "decode"
    /\ isAscii(encoding)
    /\ Len(input) > 2 * CHUNK
    /\ \E i \in 1..Len(input) : input[i] >= \H80
    /\ Len(ret.val) = Len(input)

(***************************************************************************)
(* Round trips: every recognised lower-case identifier, strings over       *)
(* letters, Latin-1 units inside and outside 0x80..0x9F, extension-table   *)
(* characters, a unit no single-byte codec holds, and surrogates.          *)
(***************************************************************************)
MaxRoundTripLen == 3

RoundTripStrs ==
    SeqsUpTo({\H41, \H80, \H81, \HE9, \H20AC, \H3042, \HD83D, \HDE00}, MaxRoundTripLen)
        \cup {<<u>> : u \in ExtensionChars \cup (\H7F..\HA0) \cup {\HFF, \H100}}

NextRoundTrip == Encode(RoundTripStrs, SupportedEncoding) \/ DecodeBack

SpecRoundTrip == Init /\ [][NextRoundTrip]_vars

noLoneSurrogate(str) == \A i \in 1..Len(str) : ~isLone(str, i)

\* C3's reading of "representable without loss", per encoding
representable(str, enc) ==
    IF enc \in {UTF_8, UTF8, UTF_16LE, UTF_16BE} THEN noLoneSurrogate(str)
    ELSE IF enc \in {ASCII, US_ASCII} THEN \A i \in 1..Len(str) : str[i] <= \H7F
    ELSE IF enc \in {LATIN1, ISO_8859_1} THEN \A i \in 1..Len(str) : str[i] <= \HFF
    ELSE \A i \in 1..Len(str) : str[i] <= \HFF \/ str[i] \in ExtensionChars

\* the same, except for Windows-1252: a unit <= 0xFF must not be a byte value the
\* extension table assigns (0x80..0x9F without 0x81, 0x8D, 0x8F, 0x90, 0x9D)
representableExactly(str, enc) ==
    IF enc = WINDOWS_1252
    THEN \A i \in 1..Len(str) :
             \/ str[i] <= \HFF /\ str[i] \notin DOMAIN WINDOWS_1252_EXTRA
             \/ str[i] \in ExtensionChars
    ELSE representable(str, enc)

\* C3 as stated: textDecode(textEncode(s, E), E) = s for every s representable in E,
\* where Windows-1252 represents every unit <= 0xFF and the 27 extension characters.
RoundTrip ==
    (op = "roundtrip" /\ representable(input, encoding)) =>
        (back.kind = "value" /\ back.val = input)

\* C3 amended: the same with Windows-1252 representing the units <= 0xFF that are
\* not byte values assigned by the extension table, and the 27 extension characters.
RoundTripExact ==
    (op = "roundtrip" /\ representableExactly(input, encoding)) =>
        (back.kind = "value" /\ back.val = input)

\* Windows-1252: an unassigned C1 unit, an extension character and a letter come back
RoundTripWindows1252 ==
    /\ op = "roundtrip"
    /\ encoding = WINDOWS_1252
    /\ input = <<\H81, \H20AC, \HE9>>
    /\ ret.val = <<\H81, \H80, \HE9>>
    /\ back.val = input

====
